---- MODULE Spec2Model ----
(***************************************************************************)
(* Flood dashboard analytics pipeline: the rolling Reading Store           *)
(* (fetch_data.py), the seasonal P90 baseline builder                      *)
(* (fetch_historical.py), the two rate-of-change engines and the           *)
(* classifier/merger (compare_p90_roc.py, process_gauge_data.py), the      *)
(* dashboard's trend bands (main.py) and the two orchestrators             *)
(* (update_data.py, update_pipeline.py).                                   *)
(*                                                                         *)
(* Time is counted in seconds since 2024-01-01T00:00Z.  Floating-point    *)
(* values are exact rationals [k, n, d] with the IEEE specials the code    *)
(* can produce: NaN (pandas' null), +inf and -inf.                         *)
(***************************************************************************)
EXTENDS Integers, Sequences, FiniteSets, TLC

VARIABLES
    \* ---- Reading Store (fetch_data.py) ----
    now,          \* the wall clock, datetime.now(timezone.utc), in seconds
    published,    \* what the upstream instantaneous-values service holds
    fileExists,   \* os.path.exists(DATA_FILE)
    store,        \* the rows of gauge_data.csv, in file order
    lastOp,       \* what the last step of the ingestion did
    lastDropped,  \* rows the last append_and_trim filtered out
    \* ---- Baseline Builder (fetch_historical.py) ----
    archive,      \* what the upstream daily-values service holds
    histExists,   \* HISTORICAL_FILE.exists()
    baseline,     \* the rows of historical_p90.csv, in file order
    histInput,    \* the daily values the last build had fetched
    histState,    \* "idle", then what fetch_historical's main did last
    \* ---- Classifier, latest-value path (process_gauge_data.py) ----
    processed,    \* the rows of gauge_data_processed.csv, in file order
    procState,    \* "idle", then how the script ended: "saved" or crashed
    \* ---- Classifier, bulk path (compare_p90_roc.py) ----
    current,      \* the rows of north_va.csv and south_va.csv, concatenated
    compared,     \* the rows of high_flow_with_roc.csv, in file order
    cmpState,     \* "idle", then what main did: "no_data", "refused", "saved"
    \* ---- Dashboard (main.py) ----
    mapView,      \* the markers of the map figure build_map returned last
    pageView,     \* the gauge page display_page returned last
    callbacks,    \* the update_map callbacks the server is running, per thread
    \* ---- Orchestrators (update_data.py, update_pipeline.py) ----
    orch,         \* the orchestrator that runs, "none" between runs
    pc,           \* the step the running orchestrator is about to take
    absentAtStart,  \* whether historical_p90.csv was absent when the run began
    builderCalled,  \* whether the run has invoked fetch_historical's main
    updateLog,    \* the timestamp_utc column of update_log.csv, in file order
    logHistory,   \* every timestamp the ledger ever received, in order
    logAppends,   \* the number of log_update calls so far
    runs,         \* the number of runs started
    runError,     \* the stage of the run whose request failed, else "none"
    atStart,      \* the persisted artifacts as they were when the run began
    builderCalls  \* the number of times fetch_historical's main was invoked

ingestVars == <<now, published, fileExists, store, lastOp, lastDropped>>
baselineVars == <<archive, histExists, baseline, histInput, histState>>
processVars == <<processed, procState>>
compareVars == <<current, compared, cmpState>>
dashVars == <<mapView, pageView, callbacks>>
ledgerVars == <<updateLog, logHistory, logAppends>>
pipeVars == <<orch, pc, absentAtStart, builderCalled, ledgerVars, runs, runError,
             atStart, builderCalls>>
notIngestVars == <<baselineVars, processVars, compareVars, dashVars, pipeVars>>
notBaselineVars == <<ingestVars, processVars, compareVars, dashVars, pipeVars>>
notProcessVars == <<ingestVars, baselineVars, compareVars, dashVars, pipeVars>>
notCompareVars == <<ingestVars, baselineVars, processVars, dashVars, pipeVars>>

vars == <<now, published, fileExists, store, lastOp, lastDropped,
          archive, histExists, baseline, histInput, histState,
          processed, procState, current, compared, cmpState,
          mapView, pageView, callbacks,
          orch, pc, absentAtStart, builderCalled,
          updateLog, logHistory, logAppends, runs, runError, atStart,
          builderCalls>>

-----------------------------------------------------------------------------
(* Floating-point values                                                   *)

Abs(x) == IF x < 0 THEN -x ELSE x

RECURSIVE GCD(_, _)
GCD(a, b) == IF b = 0 THEN a ELSE GCD(b, a % b)

NaN == [k |-> "nan", n |-> 0, d |-> 1]
PosInf == [k |-> "inf", n |-> 1, d |-> 1]
NegInf == [k |-> "inf", n |-> -1, d |-> 1]

\* the rational n/d in lowest terms with a positive denominator (d # 0)
Rat(n, d) ==
    LET g == GCD(Abs(n), Abs(d))
        s == IF d < 0 THEN -1 ELSE 1
    IN  [k |-> "num", n |-> (s * n) \div g, d |-> (s * d) \div g]

Num(n) == [k |-> "num", n |-> n, d |-> 1]

IsNaN(x) == x.k = "nan"          \* pd.isna: NaN only, an infinity is not null
IsNum(x) == x.k = "num"
IsZero(x) == x.k = "num" /\ x.n = 0

\* x >= y and x <= y on floats: any comparison with NaN is False
Geq(x, y) ==
    /\ ~IsNaN(x) /\ ~IsNaN(y)
    /\ IF x.k = "inf" THEN x.n = 1 \/ (y.k = "inf" /\ y.n = -1)
       ELSE IF y.k = "inf" THEN y.n = -1
       ELSE x.n * y.d >= y.n * x.d

Leq(x, y) == Geq(y, x)
Gt(x, y) == ~IsNaN(x) /\ ~IsNaN(y) /\ ~Leq(x, y)

Sign(n) == IF n > 0 THEN 1 ELSE IF n < 0 THEN -1 ELSE 0

\* x - y on finite floats or NaN
FSub(x, y) ==
    IF IsNaN(x) \/ IsNaN(y) THEN NaN
    ELSE Rat(x.n * y.d - y.n * x.d, x.d * y.d)

\* x / y as IEEE (numpy) division does it: x/0 is +-inf, 0/0 is NaN
FDiv(x, y) ==
    IF IsNaN(x) \/ IsNaN(y) THEN NaN
    ELSE IF x.k = "inf" /\ y.k = "inf" THEN NaN
    ELSE IF x.k = "inf" THEN [k |-> "inf", n |-> x.n * (IF y.n < 0 THEN -1 ELSE 1), d |-> 1]
    ELSE IF y.k = "inf" THEN Num(0)
    ELSE IF y.n = 0 THEN (IF x.n = 0 THEN NaN
                          ELSE [k |-> "inf", n |-> Sign(x.n), d |-> 1])
    ELSE Rat(x.n * y.d, x.d * y.n)

\* x * 100
FTimes100(x) ==
    IF x.k = "num" THEN Rat(100 * x.n, x.d) ELSE x

-----------------------------------------------------------------------------
(* Reading Store: fetch_data.py                                            *)

Sites == {1, 2}

\* the values the upstream JSON carries in v["value"]
RawValues == {"12", "-9999", "Ice"}

HorizonHours == 24
OffsetSeconds == 1

\* bounds of the model
MaxTicks == 1
MaxDays == 1
MaxPublished == 2
MaxRows == 3

TickSeconds == 5 * 60
HorizonSeconds == HorizonHours * 3600
StartTime == 2 * HorizonSeconds
NaT == -1

\* float(v["value"]), -9999 and unparsable values become NaN
ParseFlow(raw) ==
    IF raw = "12" THEN Num(12)
    ELSE NaN

\* strftime("%Y-%m-%dT%H:%M"): the seconds are not part of the request
strftime_minute(t) == (t \div 60) * 60

SetMax(S) == CHOOSE x \in S : \A y \in S : y <= x
SetMin(S) == CHOOSE x \in S : \A y \in S : x <= y

RowTimes(rows) == {rows[i].timestamp_utc : i \in 1..Len(rows)}

\* the last stored timestamp plus one second; 24 hours ago without a file;
\* NaT when the file holds no row (max of an empty column)
load_last_timestamp ==
    IF fileExists
    THEN IF store = <<>> THEN NaT ELSE SetMax(RowTimes(store)) + OffsetSeconds
    ELSE now - HorizonSeconds

\* the rows of a set of readings, one time series per site, each in time order
RECURSIVE RowsOf(_)
RowsOf(S) ==
    IF S = {} THEN <<>>
    ELSE LET site == SetMin({r.site_no : r \in S})
             ts == SetMin({r.timestamp_utc : r \in {q \in S : q.site_no = site}})
             r == CHOOSE q \in S : q.site_no = site /\ q.timestamp_utc = ts
         IN  <<r>> \o RowsOf(S \ {r})

\* the service answers with every reading from startDT to endDT, both as sent
fetch_va_iv_since(start_time) ==
    LET startDT == strftime_minute(start_time)
        endDT == strftime_minute(now)
        hit == {p \in published : startDT <= p.timestamp_utc /\ p.timestamp_utc <= endDT}
    IN  RowsOf({[site_no |-> p.site_no, timestamp_utc |-> p.timestamp_utc,
                 flow_cfs |-> ParseFlow(p.value)] : p \in hit})

\* v["value"] of a fetched reading has no key "value": the KeyError is not
\* among the exceptions the loop catches and leaves fetch_va_iv_since
fetch_va_iv_raises(start_time) ==
    LET startDT == strftime_minute(start_time)
        endDT == strftime_minute(now)
    IN  \E p \in published :
            /\ startDT <= p.timestamp_utc /\ p.timestamp_utc <= endDT
            /\ p.value = "missing"

\* a trim that filters the fetched rows only
append_and_trim_new_only(df_new, hours) ==
    LET cutoff_time == now - hours * 3600
        Keep(r) == r.timestamp_utc >= cutoff_time
    IN  (IF fileExists THEN store ELSE <<>>) \o SelectSeq(df_new, Keep)

\* old rows then new rows, those at or after the cutoff, written back
append_and_trim(df_new, hours) ==
    LET cutoff_time == now - hours * 3600
        df_all == IF fileExists THEN store \o df_new ELSE df_new
        Keep(r) == r.timestamp_utc >= cutoff_time
    IN  SelectSeq(df_all, Keep)

\* time passes: one sampling interval, or a whole retention horizon
Tick ==
    /\ \/ /\ (now - StartTime) % HorizonSeconds < MaxTicks * TickSeconds
          /\ now' = now + TickSeconds
       \/ /\ now < StartTime + MaxDays * HorizonSeconds
          /\ now' = now + HorizonSeconds
    /\ lastOp' = "tick"
    /\ UNCHANGED <<published, fileExists, store, lastDropped>>
    /\ UNCHANGED notIngestVars

\* a gauge reports a reading stamped with the current minute
Publish ==
    /\ Cardinality(published) < MaxPublished
    /\ \E s \in Sites, raw \in RawValues :
          /\ \A p \in published : ~(p.site_no = s /\ p.timestamp_utc = now)
          /\ published' = published \cup
                {[site_no |-> s, timestamp_utc |-> now, value |-> raw]}
    /\ lastOp' = "publish"
    /\ UNCHANGED <<now, fileExists, store, lastDropped>>
    /\ UNCHANGED notIngestVars

\* fetch_data.main on a file without rows: NaT.strftime raises ValueError
fetch_data_main_raises ==
    /\ load_last_timestamp = NaT
    /\ lastOp' = "error"
    /\ UNCHANGED <<now, published, fileExists, store, lastDropped>>

\* fetch_data.main: nothing fetched, nothing written
fetch_data_main_nothing ==
    /\ load_last_timestamp # NaT
    /\ ~fetch_va_iv_raises(load_last_timestamp)
    /\ fetch_va_iv_since(load_last_timestamp) = <<>>
    /\ lastOp' = "nothing_to_update"
    /\ UNCHANGED <<now, published, fileExists, store, lastDropped>>

\* fetch_data.main: the fetched rows are appended and the file trimmed
fetch_data_main_appends ==
    /\ load_last_timestamp # NaT
    /\ ~fetch_va_iv_raises(load_last_timestamp)
    /\ LET df == fetch_va_iv_since(load_last_timestamp)
           kept == append_and_trim(df, HorizonHours)
       IN  /\ df # <<>>
           /\ Len(kept) <= MaxRows
           /\ store' = kept
           /\ lastDropped' = (IF fileExists THEN Len(store) ELSE 0) + Len(df) - Len(kept)
    /\ fileExists' = TRUE
    /\ lastOp' = "append_and_trim"
    /\ UNCHANGED <<now, published>>

\* fetch_data.main: the request fails or the response is not 2xx, and
\* requests raises out of fetch_va_iv_since
fetch_data_main_transport_error ==
    /\ lastOp' = "transport_error"
    /\ UNCHANGED <<now, published, fileExists, store, lastDropped>>

\* fetch_data.main: a fetched reading lacks its value and the KeyError ends
\* the fetch; nothing is written
fetch_data_main_key_error ==
    /\ load_last_timestamp # NaT
    /\ fetch_va_iv_raises(load_last_timestamp)
    /\ lastOp' = "key_error"
    /\ UNCHANGED <<now, published, fileExists, store, lastDropped>>

\* fetch_data.py run on its own
FetchDataFails == fetch_data_main_raises /\ UNCHANGED notIngestVars

FetchDataEmpty == fetch_data_main_nothing /\ UNCHANGED notIngestVars

FetchDataAppend == fetch_data_main_appends /\ UNCHANGED notIngestVars

FetchDataKeyError == fetch_data_main_key_error /\ UNCHANGED notIngestVars

\* what one answer of the service can hold for a reading: a number, the
\* sentinel, a word, a JSON null, or no "value" key at all
ParseRawValues == {"12", "-9999", "Ice", "null", "missing"}

MaxBatch == 2

ParseCandidates ==
    [site_no : Sites, timestamp_utc : {StartTime - TickSeconds, StartTime},
     value : ParseRawValues]

\* the answers of the service: at most MaxBatch readings, one per site and time
ParseBatches ==
    {B \in SUBSET ParseCandidates :
        /\ Cardinality(B) <= MaxBatch
        /\ \A a, b \in B :
              (a.site_no = b.site_no /\ a.timestamp_utc = b.timestamp_utc) => a = b}

-----------------------------------------------------------------------------
(* Calendar: pandas' dayofyear, in UTC and in US/Eastern                   *)

SecondsPerDay == 24 * 3600

\* Timestamp.dayofyear of a civil time counted from 2024-01-01T00:00 of its
\* own zone; 2024 has 366 days, 2023 and 2025 have 365
dayofyear(civil) ==
    LET day == civil \div SecondsPerDay
    IN  IF day < -365 THEN day + 730 + 1
        ELSE IF day < 0 THEN day + 365 + 1
        ELSE IF day < 366 THEN day + 1
        ELSE IF day < 731 THEN day - 366 + 1
        ELSE day - 731 + 1

\* US/Eastern: UTC-4 from 2024-03-10T07:00Z to 2024-11-03T06:00Z, else UTC-5
\* (daylight time of 2023 and 2025 is outside the instants of this model)
tz_convert_eastern(t) ==
    IF (69 * 24 + 7) * 3600 <= t /\ t < (307 * 24 + 6) * 3600
    THEN t - 4 * 3600
    ELSE t - 5 * 3600

-----------------------------------------------------------------------------
(* Baseline Builder: fetch_historical.py                                   *)

\* site names, as numbers so that groupby can sort them
SiteNames == {1, 2}

\* daily values carry their date at midnight; the zone-less string is parsed
\* as UTC:  2024-01-02, 2024-01-05, 2025-01-01, 2025-01-02
HistInstants ==
    {1 * SecondsPerDay, 4 * SecondsPerDay, 366 * SecondsPerDay, 367 * SecondsPerDay}

\* v.get("value") of a daily value
HistRawValues == {"10", "-9999", "Ice", "nan"}

\* the daily values the service may hold: site 1 over both years, under a
\* second name in the 2025 chunk; site 2 on one day
HistCandidates ==
    {c \in [site_no : Sites, site_name : SiteNames, dateTime : HistInstants,
            value : HistRawValues] :
        /\ c.site_name = 2 => (c.site_no = 1 /\ c.dateTime >= 366 * SecondsPerDay)
        /\ c.site_no = 2 => c.dateTime = 1 * SecondsPerDay}

DaysInCurve == 365
MaxSamples == 2

\* v.get("value") in (None, "", "Ice") or float() raising: the value is skipped
HistSkipped(raw) == raw = "Ice"

\* float(val_str): "nan" parses to NaN, -9999 stays a number
HistParse(raw) ==
    IF raw = "10" THEN Num(10)
    ELSE IF raw = "30" THEN Num(30)
    ELSE IF raw = "-9999" THEN Num(-9999)
    ELSE NaN

\* the rows of the chunks: every parsable daily value the service holds
fetch_va_dv_chunk(held) ==
    {[site_no |-> a.site_no, site_name |-> a.site_name, date |-> a.dateTime,
      flow_cfs |-> HistParse(a.value)] : a \in {x \in held : ~HistSkipped(x.value)}}

\* the chunks concatenated
fetch_historical_data == fetch_va_dv_chunk(archive)

\* x + y and x * (n / d) on finite floats
FAdd(x, y) ==
    IF IsNaN(x) \/ IsNaN(y) THEN NaN
    ELSE Rat(x.n * y.d + y.n * x.d, x.d * y.d)

FScale(x, n, d) ==
    IF IsNaN(x) THEN NaN ELSE Rat(x.n * n, x.d * d)

\* the non-null flows of a set of rows, ascending
RECURSIVE SortedFlows(_)
SortedFlows(rows) ==
    LET valid == {r \in rows : ~IsNaN(r.flow_cfs)}
    IN  IF valid = {} THEN <<>>
        ELSE LET r == CHOOSE q \in valid : \A o \in valid : Leq(q.flow_cfs, o.flow_cfs)
             IN  <<r.flow_cfs>> \o SortedFlows(valid \ {r})

\* Series.quantile(0.9): linear interpolation between order statistics,
\* NaN for a group without a valid value
quantile90(rows) ==
    LET xs == SortedFlows(rows)
        m == Len(xs)
        lo == (9 * (m - 1)) \div 10
        rem == (9 * (m - 1)) % 10
    IN  IF m = 0 THEN NaN
        ELSE IF rem = 0 THEN xs[lo + 1]
        ELSE FAdd(xs[lo + 1], FScale(FSub(xs[lo + 2], xs[lo + 1]), rem, 10))

Days == 1..DaysInCurve

Known(s) == {d \in Days : ~IsNaN(s[d])}

\* Series.interpolate(method="linear"): gaps between valid values are filled
\* linearly, the gap after the last valid value with that value, the gap
\* before the first valid value stays
interpolate(s) ==
    LET known == Known(s)
    IN  [d \in Days |->
            IF d \in known THEN s[d]
            ELSE LET before == {k \in known : k < d}
                     after == {k \in known : k > d}
                 IN  IF before = {} THEN NaN
                     ELSE IF after = {} THEN s[SetMax(before)]
                     ELSE LET a == SetMax(before)
                              b == SetMin(after)
                          IN  FAdd(s[a], FScale(FSub(s[b], s[a]), d - a, b - a))]

\* Series.bfill(): a null takes the next valid value
bfill(s) ==
    LET known == Known(s)
    IN  [d \in Days |->
            IF d \in known THEN s[d]
            ELSE LET after == {k \in known : k > d}
                 IN  IF after = {} THEN NaN ELSE s[SetMin(after)]]

\* Series.ffill(): a null takes the previous valid value
ffill(s) ==
    LET known == Known(s)
    IN  [d \in Days |->
            IF d \in known THEN s[d]
            ELSE LET before == {k \in known : k < d}
                 IN  IF before = {} THEN NaN ELSE s[SetMax(before)]]

\* a curve that is still all null becomes all zero
zero_if_all_nan(s) ==
    IF Known(s) = {} THEN [d \in Days |-> Num(0)] ELSE s

\* the groups of a frame, sorted by site and name
RECURSIVE SortedGroups(_)
SortedGroups(G) ==
    IF G = {} THEN <<>>
    ELSE LET g == CHOOSE x \in G : \A y \in G :
                     x[1] < y[1] \/ (x[1] = y[1] /\ x[2] <= y[2])
         IN  <<g>> \o SortedGroups(G \ {g})

\* the (site_no, site_name) pairs the second groupby iterates over
site_groups(df) == {<<r.site_no, r.site_name>> : r \in df}

\* one site group of the second loop: the quantiles of its days, reindexed
\* to 1..365 and filled
site_curve(site_df) ==
    LET merged == [d \in Days |-> quantile90({r \in site_df : r.day_of_year = d})]
    IN  zero_if_all_nan(ffill(bfill(interpolate(merged))))

site_rows(g, df) ==
    LET curve == site_curve({r \in df : r.site_no = g[1] /\ r.site_name = g[2]})
    IN  [d \in Days |->
            [site_no |-> g[1], site_name |-> g[2], day_of_year |-> d,
             p90_flow_cfs |-> curve[d]]]

\* pd.concat(full_results)
RECURSIVE concat_results(_, _)
concat_results(groups, df) ==
    IF groups = <<>> THEN <<>>
    ELSE site_rows(Head(groups), df) \o concat_results(Tail(groups), df)

\* the day_of_year of a historical sample: the date in US/Eastern
builder_day_of_year(date) == dayofyear(tz_convert_eastern(date))

compute_p90_by_day(df0) ==
    LET dfd == {[site_no |-> r.site_no, site_name |-> r.site_name,
                 flow_cfs |-> r.flow_cfs,
                 day_of_year |-> builder_day_of_year(r.date)] : r \in df0}
        valid_sites == {s \in {r.site_no : r \in dfd} :
                          \E r \in dfd : r.site_no = s /\ ~IsNaN(r.flow_cfs)}
        df == {r \in dfd : r.site_no \in valid_sites}
    IN  concat_results(SortedGroups(site_groups(df)), df)

\* the upstream service holds one more daily value
ArchiveSample ==
    /\ Cardinality(archive) < MaxSamples
    /\ \E c \in HistCandidates :
          /\ \A a \in archive : ~(a.site_no = c.site_no /\ a.dateTime = c.dateTime)
          /\ archive' = archive \cup {c}
    /\ UNCHANGED <<histExists, baseline, histInput, histState>>
    /\ UNCHANGED notBaselineVars

\* a main that saves the frame it computed from nothing
historical_main_saves_nothing ==
    /\ fetch_historical_data = {}
    /\ baseline' = <<>>
    /\ histExists' = TRUE
    /\ histState' = "saved"
    /\ UNCHANGED <<archive, histInput>>

\* fetch_historical.main: nothing fetched, nothing written
historical_main_nothing ==
    /\ fetch_historical_data = {}
    /\ histState' = "no_data"
    /\ UNCHANGED <<archive, histExists, baseline, histInput>>

\* fetch_historical.main: the baseline is computed and the file rewritten
historical_main_builds ==
    /\ fetch_historical_data # {}
    /\ baseline' = compute_p90_by_day(fetch_historical_data)
    /\ histExists' = TRUE
    /\ histInput' = archive
    /\ histState' = "saved"
    /\ UNCHANGED archive

\* fetch_historical.py run on its own
FetchHistoricalEmpty == historical_main_nothing /\ UNCHANGED notBaselineVars

FetchHistoricalBuild == historical_main_builds /\ UNCHANGED notBaselineVars

-----------------------------------------------------------------------------
(* Classifier, latest-value path: process_gauge_data.py                    *)

LookbackHours == 3
ToleranceMinutes == 30
MaxGaugeRows == 3

\* 2024-01-03T02:00Z: the 3rd day of the year in UTC, the 2nd in US/Eastern
LatestTime == 2 * SecondsPerDay + 2 * 3600
TargetTime == LatestTime - LookbackHours * 3600

\* the readings gauge_data.csv may hold: site 1 around the 3-hour target and
\* at the latest time, site 2 at the latest time
GaugeTimes ==
    {TargetTime - 31 * 60, TargetTime - 30 * 60, TargetTime - 10 * 60,
     TargetTime + 10 * 60, LatestTime}

GaugeFlows == {NaN, Num(0), Num(10), Num(12)}

GaugeCandidates ==
    {r \in [site_no : Sites, timestamp_utc : GaugeTimes, flow_cfs : GaugeFlows] :
        r.site_no = 2 => r.timestamp_utc = LatestTime}

\* the histories the baseline of this path was built from
ProcessArchives ==
    {{[site_no |-> 1, site_name |-> 1, dateTime |-> 1 * SecondsPerDay, value |-> "10"],
      [site_no |-> 1, site_name |-> 1, dateTime |-> 4 * SecondsPerDay, value |-> "30"]},
     {[site_no |-> 1, site_name |-> 1, dateTime |-> 366 * SecondsPerDay, value |-> "10"],
      [site_no |-> 2, site_name |-> 1, dateTime |-> 1 * SecondsPerDay, value |-> "10"]},
     {[site_no |-> 1, site_name |-> 1, dateTime |-> 1 * SecondsPerDay, value |-> "10"],
      [site_no |-> 1, site_name |-> 2, dateTime |-> 367 * SecondsPerDay, value |-> "30"]}}

RowBefore(a, b) ==
    \/ a.site_no < b.site_no
    \/ a.site_no = b.site_no /\ a.timestamp_utc < b.timestamp_utc

\* sort_values(["site_no", "timestamp_utc"])
RECURSIVE sort_values(_)
sort_values(rows) ==
    IF rows = <<>> THEN <<>>
    ELSE LET rest == sort_values(Tail(rows))
             r == Head(rows)
             BeforeR(x) == RowBefore(x, r)
             NotBeforeR(x) == ~RowBefore(x, r)
         IN  SelectSeq(rest, BeforeR) \o <<r>> \o SelectSeq(rest, NotBeforeR)

\* the keys of groupby("site_no"), ascending
RECURSIVE SortedSites(_)
SortedSites(S) ==
    IF S = {} THEN <<>>
    ELSE <<SetMin(S)>> \o SortedSites(S \ {SetMin(S)})

site_keys(df) == SortedSites({df[i].site_no : i \in 1..Len(df)})

site_group(df, site) ==
    LET OfSite(r) == r.site_no = site IN SelectSeq(df, OfSite)

\* the same loop body with a tolerance that excludes the 30-minute boundary
pct_change_of_group_strict(group) ==
    LET latest_row == group[Len(group)]
        target_time == latest_row.timestamp_utc - LookbackHours * 3600
        time_diff == [i \in 1..Len(group) |-> Abs(group[i].timestamp_utc - target_time)]
        mask == {i \in 1..Len(group) : time_diff[i] < ToleranceMinutes * 60}
    IN  IF mask # {}
        THEN LET argmin == CHOOSE i \in mask : \A j \in mask : time_diff[i] <= time_diff[j]
                 flow_3h == group[argmin].flow_cfs
             IN  IF ~IsZero(flow_3h)
                 THEN FTimes100(FDiv(FSub(latest_row.flow_cfs, flow_3h), flow_3h))
                 ELSE NaN
        ELSE NaN

\* the body of the loop of compute_pct_change_3h for one group
pct_change_of_group(group) ==
    LET latest_row == group[Len(group)]
        latest_time == latest_row.timestamp_utc
        target_time == latest_time - LookbackHours * 3600
        time_diff == [i \in 1..Len(group) |-> Abs(group[i].timestamp_utc - target_time)]
        mask == {i \in 1..Len(group) : time_diff[i] <= ToleranceMinutes * 60}
    IN  IF mask # {}
        THEN LET argmin == CHOOSE i \in mask :
                     /\ \A j \in mask : time_diff[i] <= time_diff[j]
                     /\ \A j \in mask : time_diff[j] = time_diff[i] => i <= j
                 flow_3h == group[argmin].flow_cfs
             IN  IF ~IsZero(flow_3h)
                 THEN FTimes100(FDiv(FSub(latest_row.flow_cfs, flow_3h), flow_3h))
                 ELSE NaN
        ELSE NaN

\* one percent change per group, in group order
compute_pct_change_3h(df) ==
    LET keys == site_keys(df)
    IN  [i \in 1..Len(keys) |-> pct_change_of_group(site_group(df, keys[i]))]

\* GroupBy.last(): the last non-null value of the column
last_flow(group) ==
    LET valid == {i \in 1..Len(group) : ~IsNaN(group[i].flow_cfs)}
    IN  IF valid = {} THEN NaN ELSE group[SetMax(valid)].flow_cfs

\* groupby("site_no").last().reset_index()
latest_per_site(df) ==
    LET keys == site_keys(df)
    IN  [i \in 1..Len(keys) |->
            LET group == site_group(df, keys[i])
            IN  [site_no |-> keys[i],
                 timestamp_utc |-> group[Len(group)].timestamp_utc,
                 flow_cfs |-> last_flow(group)]]

\* the day_of_year of a current reading: Timestamp.dayofyear of the UTC time
current_day_of_year(timestamp_utc) == dayofyear(timestamp_utc)

\* pd.merge(how="left", on=["site_no", "day_of_year"]) for one left row: one
\* row per matching baseline row, one row with a null p90 without a match
merge_row(left, df_hist) ==
    LET doy == current_day_of_year(left.timestamp_utc)
        Match(h) == h.site_no = left.site_no /\ h.day_of_year = doy
        hits == SelectSeq(df_hist, Match)
    IN  IF hits = <<>> THEN <<NaN>>
        ELSE [i \in 1..Len(hits) |-> hits[i].p90_flow_cfs]

\* the ratio of the latest-value path: a plain division
process_ratio(flow_cfs, p90_flow_cfs) == FDiv(flow_cfs, p90_flow_cfs)

RECURSIVE process_rows(_, _, _, _)
process_rows(df_latest, pcts, df_hist, i) ==
    IF i > Len(df_latest) THEN <<>>
    ELSE LET left == df_latest[i]
             p90s == merge_row(left, df_hist)
         IN  [j \in 1..Len(p90s) |->
                 [site_no |-> left.site_no,
                  timestamp_utc |-> left.timestamp_utc,
                  flow_cfs |-> left.flow_cfs,
                  pct_change_3h |-> pcts[i],
                  p90_flow_cfs |-> p90s[j],
                  ratio |-> process_ratio(left.flow_cfs, p90s[j])]]
             \o process_rows(df_latest, pcts, df_hist, i + 1)

\* the script, top to bottom
process_gauge_data(gauge_file, hist_file) ==
    LET df_gauge == sort_values(gauge_file)
    IN  process_rows(latest_per_site(df_gauge), compute_pct_change_3h(df_gauge),
                     hist_file, 1)

\* gauge_data.csv as one fetch leaves it, one reading more
GaugeFetched ==
    /\ procState = "idle"
    /\ Len(store) < MaxGaugeRows
    /\ \E r \in GaugeCandidates :
          /\ \A i \in 1..Len(store) :
                ~(store[i].site_no = r.site_no /\ store[i].timestamp_utc = r.timestamp_utc)
          /\ store' = sort_values(Append(store, r))
    /\ fileExists' = TRUE
    /\ UNCHANGED <<now, published, lastOp, lastDropped>>
    /\ UNCHANGED notIngestVars

\* the script as a process: pd.read_csv raises FileNotFoundError for a file
\* that is absent, GAUGE_FILE first, HISTORICAL_FILE second; nothing is
\* written then
process_gauge_data_script ==
    IF ~fileExists
    THEN procState' = "crashed_no_gauge_file" /\ UNCHANGED processed
    ELSE IF ~histExists
    THEN procState' = "crashed_no_baseline" /\ UNCHANGED processed
    ELSE processed' = process_gauge_data(store, baseline) /\ procState' = "saved"

\* process_gauge_data.py runs on the two files
ProcessGaugeData ==
    /\ procState = "idle"
    /\ fileExists /\ histExists
    /\ process_gauge_data_script
    /\ UNCHANGED notProcessVars

-----------------------------------------------------------------------------
(* Classifier, bulk path: compare_p90_roc.py                               *)

\* WINDOWS: sample counts of the 1h, 3h and 6h windows
WINDOWS == [pct_change_1h |-> 12, pct_change_3h |-> 36, pct_change_6h |-> 72]

MaxSeries == 73

\* the series of site 1 starts at 2024-01-02T12:00Z, one reading per 5 minutes
SeriesStart == SecondsPerDay + 12 * 3600

\* the positions of the series of site 1 whose flow is free; the others hold
\* the base flow
ProbePositions == {1, 37, 61, 73}
ProbeFlows == {NaN, Num(0), Num(12)}
BaseFlow == Num(10)

\* x.shift(window) within one group
shifted(group, t, window) ==
    IF t - window >= 1 THEN group[t - window].flow_cfs ELSE NaN

\* (x - x.shift(window)) / x.shift(window) * 100
pct_change_at(group, t, window) ==
    FTimes100(FDiv(FSub(group[t].flow_cfs, shifted(group, t, window)),
                   shifted(group, t, window)))

\* the rows of one group with the three percent changes
roc_group(group) ==
    [t \in 1..Len(group) |->
        [site_no |-> group[t].site_no,
         timestamp_utc |-> group[t].timestamp_utc,
         region |-> group[t].region,
         flow_cfs |-> group[t].flow_cfs,
         pct_change_1h |-> pct_change_at(group, t, WINDOWS.pct_change_1h),
         pct_change_3h |-> pct_change_at(group, t, WINDOWS.pct_change_3h),
         pct_change_6h |-> pct_change_at(group, t, WINDOWS.pct_change_6h)]]

RECURSIVE roc_groups(_, _)
roc_groups(df, keys) ==
    IF keys = <<>> THEN <<>>
    ELSE roc_group(site_group(df, Head(keys))) \o roc_groups(df, Tail(keys))

\* sorted by site and time, each group transformed in place
compute_rate_of_change(df) ==
    LET sorted == sort_values(df)
    IN  roc_groups(sorted, site_keys(sorted))

\* dropna(subset=["day_of_year", "flow_cfs", "site_no"])
prepare_current_data(df) ==
    LET HasFlow(r) == ~IsNaN(r.flow_cfs) IN SelectSeq(df, HasFlow)

\* flow / p90, set to null where the p90 is null or zero
compare_ratio(flow_cfs, p90_flow_cfs) ==
    IF IsNaN(p90_flow_cfs) \/ IsZero(p90_flow_cfs) THEN NaN
    ELSE FDiv(flow_cfs, p90_flow_cfs)

high_flow_of_strict(ratio) == Gt(ratio, Num(1))

\* ratio >= 1.0
high_flow_of(ratio) == Geq(ratio, Num(1))

RECURSIVE compare_to_historical(_, _, _)
compare_to_historical(df_current, df_hist, i) ==
    IF i > Len(df_current) THEN <<>>
    ELSE LET left == df_current[i]
             p90s == merge_row(left, df_hist)
         IN  [j \in 1..Len(p90s) |->
                 [site_no |-> left.site_no,
                  timestamp_utc |-> left.timestamp_utc,
                  region |-> left.region,
                  flow_cfs |-> left.flow_cfs,
                  p90_flow_cfs |-> p90s[j],
                  ratio |-> compare_ratio(left.flow_cfs, p90s[j]),
                  high_flow |-> high_flow_of(compare_ratio(left.flow_cfs, p90s[j])),
                  pct_change_1h |-> left.pct_change_1h,
                  pct_change_3h |-> left.pct_change_3h,
                  pct_change_6h |-> left.pct_change_6h]]
             \o compare_to_historical(df_current, df_hist, i + 1)

SeriesOf(site) == site_group(current, site)

\* one more reading in the current files: the next 5-minute reading of
\* site 1 (north), or, after a full series of site 1, the only reading of
\* site 2 (south)
CurrentReading ==
    /\ cmpState = "idle"
    /\ \/ /\ Len(SeriesOf(1)) < MaxSeries
          /\ \E flow \in ProbeFlows \cup {BaseFlow} :
                /\ flow = BaseFlow <=> (Len(SeriesOf(1)) + 1) \notin ProbePositions
                /\ current' = sort_values(Append(current,
                      [site_no |-> 1, region |-> "north", flow_cfs |-> flow,
                       timestamp_utc |-> SeriesStart + Len(SeriesOf(1)) * TickSeconds]))
       \/ /\ SeriesOf(2) = <<>>
          /\ Len(SeriesOf(1)) = MaxSeries
          /\ \E flow \in {Num(0), Num(12)} :
                current' = sort_values(Append(current,
                      [site_no |-> 2, region |-> "south", flow_cfs |-> flow,
                       timestamp_utc |-> SeriesStart]))
    /\ UNCHANGED <<compared, cmpState>>
    /\ UNCHANGED notCompareVars

\* compare_p90_roc.main: returns without current data, returns with a
\* message while the baseline is absent, else writes the joined records
p90_rate_of_change_main ==
    /\ IF current = <<>>
       THEN cmpState' = "no_data" /\ UNCHANGED compared
       ELSE IF ~histExists
       THEN cmpState' = "refused" /\ UNCHANGED compared
       ELSE /\ compared' = compare_to_historical(
                      prepare_current_data(compute_rate_of_change(current)),
                      baseline, 1)
            /\ cmpState' = "saved"
    /\ UNCHANGED current

\* compare_p90_roc.py run without current files
CompareNoData ==
    /\ cmpState = "idle"
    /\ current = <<>>
    /\ p90_rate_of_change_main
    /\ UNCHANGED notCompareVars

\* compare_p90_roc.py run on current data and an existing baseline
CompareMain ==
    /\ cmpState = "idle"
    /\ current # <<>>
    /\ histExists
    /\ p90_rate_of_change_main
    /\ UNCHANGED notCompareVars

-----------------------------------------------------------------------------
(* Dashboard: main.py                                                      *)

MaxDashRows == 2

\* Series.round(3): the nearest multiple of 0.001, ties to the even one
round3(x) ==
    IF x.k # "num" THEN x
    ELSE LET scaled == 1000 * x.n
             q == scaled \div x.d
             r == scaled - q * x.d
         IN  IF 2 * r > x.d \/ (2 * r = x.d /\ q % 2 = 1)
             THEN Rat(q + 1, 1000)
             ELSE Rat(q, 1000)

\* build_map's color_logic
color_logic(x) ==
    IF IsNaN(x) THEN "#808080"
    ELSE IF Leq(x, Num(0)) THEN "#A18F65"
    ELSE IF Gt(x, Num(25)) THEN "#942719"
    ELSE "#5279A8"

\* build_map's flow status
map_status(flow_cfs, p90_flow_cfs) ==
    IF ~IsNaN(p90_flow_cfs) /\ Geq(flow_cfs, p90_flow_cfs)
    THEN "HIGH FLOW" ELSE "Normal Flow"

\* build_map: the rows with a flow that is not null and not negative, their
\* index as site_id, the rounded rate of change and the colour derived from it
RECURSIVE build_map(_, _)
build_map(df, i) ==
    IF i > Len(df) THEN <<>>
    ELSE (IF ~IsNaN(df[i].flow_cfs) /\ Geq(df[i].flow_cfs, Num(0))
          THEN <<[site_id |-> i,
                  pct_change_3h |-> round3(df[i].pct_change_3h),
                  color_group |-> color_logic(round3(df[i].pct_change_3h)),
                  status |-> map_status(df[i].flow_cfs, df[i].p90_flow_cfs)]>>
          ELSE <<>>)
         \o build_map(df, i + 1)

\* df_main[df_main["site_no"] == site_no].iloc[0]
first_row_of(df_main, site_no) ==
    df_main[SetMin({k \in 1..Len(df_main) : df_main[k].site_no = site_no})]

\* display_page's title colour, from the stored rate of change
title_color_of(pct_change_3h) ==
    IF IsNaN(pct_change_3h) THEN "#5A4A2F"
    ELSE IF Leq(pct_change_3h, Num(0)) THEN "#A18F65"
    ELSE IF Gt(pct_change_3h, Num(25)) THEN "#942719"
    ELSE "#5279A8"

\* display_page for /gauge/<site_id>
display_page(df_main, site_id) ==
    LET site_row == first_row_of(df_main, df_main[site_id].site_no)
    IN  [site_id |-> site_id,
         site_no |-> site_row.site_no,
         pct_change_3h |-> site_row.pct_change_3h,
         title_color |-> title_color_of(site_row.pct_change_3h),
         status |-> IF Geq(site_row.flow_cfs, site_row.p90_flow_cfs)
                    THEN "HIGH FLOW" ELSE "Normal"]

\* rates of change a processed file can hold: null, a fall, no change, a
\* rise below a thousandth, 25, 25.0001 and 30 percent
DashPcts ==
    {NaN, Num(-5), Num(0), Rat(4, 10000), Num(25), Rat(250001, 10000), Num(30)}

\* rows of gauge_data_processed.csv; a site whose flow is null has no rate
\* of change
DashCandidates ==
    {r \in [site_no : Sites, timestamp_utc : {LatestTime},
            flow_cfs : {NaN, Num(10)}, pct_change_3h : DashPcts,
            p90_flow_cfs : {NaN, Num(10)},
            ratio : {NaN, Num(1)}] :
        /\ r.ratio = process_ratio(r.flow_cfs, r.p90_flow_cfs)
        /\ IsNaN(r.flow_cfs) => IsNaN(r.pct_change_3h)}

\* gauge_data_processed.csv holds one more row; the rows of one site differ
\* in their p90 only
DataFileRow ==
    /\ Len(processed) < MaxDashRows
    /\ \E r \in DashCandidates :
          /\ \A k \in 1..Len(processed) :
                processed[k].site_no = r.site_no =>
                    /\ processed[k].flow_cfs = r.flow_cfs
                    /\ processed[k].pct_change_3h = r.pct_change_3h
          /\ processed' = Append(processed, r)
    /\ UNCHANGED procState
    /\ UNCHANGED <<ingestVars, baselineVars, compareVars, dashVars, pipeVars>>

\* the map is drawn from the data file
BuildMap ==
    /\ processed # <<>>
    /\ mapView' = build_map(processed, 1)
    /\ UNCHANGED <<pageView, callbacks>>
    /\ UNCHANGED <<ingestVars, baselineVars, processVars, compareVars, pipeVars>>

\* a gauge page is opened
DisplayPage ==
    /\ \E site_id \in 1..Len(processed) :
          pageView' = <<display_page(processed, site_id)>>
    /\ UNCHANGED <<mapView, callbacks>>
    /\ UNCHANGED <<ingestVars, baselineVars, processVars, compareVars, pipeVars>>

-----------------------------------------------------------------------------
(* Orchestrators: update_data.py and update_pipeline.py                    *)

MaxRuns == 2
MAX_LOG_RECORDS == 100
MaxAppends == 4

\* df.tail(n)
tail(df, n) ==
    IF Len(df) <= n THEN df ELSE SubSeq(df, Len(df) - n + 1, Len(df))

\* df.head(n)
head(df, n) ==
    IF Len(df) <= n THEN df ELSE SubSeq(df, 1, n)

log_update_head(df_log, timestamp) ==
    head(Append(df_log, timestamp), MAX_LOG_RECORDS)

\* log_update: the ledger with the timestamp appended, its last
\* MAX_LOG_RECORDS records kept
log_update(df_log, timestamp) ==
    tail(Append(df_log, timestamp), MAX_LOG_RECORDS)

\* log_update called at a time: the file is rewritten
log_update_at(timestamp) ==
    /\ updateLog' = log_update(updateLog, timestamp)
    /\ logHistory' = Append(logHistory, timestamp)
    /\ logAppends' = logAppends + 1

\* ledgers log_update can find on disk: the records of earlier calls, one
\* per second, or a longer file
PriorLengths == {0, 98, 99, 100, 101}

\* log_update on its own, at the time of the last call or a second later
LogUpdate ==
    /\ logAppends < MaxAppends
    /\ \E dt \in {0, 1} :
          /\ now' = now + dt
          /\ log_update_at(now + dt)
    /\ UNCHANGED <<published, fileExists, store, lastOp, lastDropped>>
    /\ UNCHANGED <<orch, pc, absentAtStart, atStart, builderCalled, builderCalls, runs, runError>>
    /\ UNCHANGED <<baselineVars, processVars, compareVars, dashVars>>

\* fetch_historical.main: the request raises (raise_for_status, a timeout)
historical_main_raises ==
    /\ histState' = "raised"
    /\ UNCHANGED <<archive, histExists, baseline, histInput>>

\* the files of the data directory and the ledger
Artifacts ==
    [gauge_data |-> <<fileExists, store>>,
     historical_p90 |-> <<histExists, baseline>>,
     gauge_data_processed |-> processed,
     high_flow_with_roc |-> compared,
     update_log |-> updateLog]

NoArtifacts ==
    [gauge_data |-> <<FALSE, <<>>>>,
     historical_p90 |-> <<FALSE, <<>>>>,
     gauge_data_processed |-> <<>>,
     high_flow_with_roc |-> <<>>,
     update_log |-> <<>>]

\* a run starts: what the classifiers report belongs to the run
start_run(name, first) ==
    /\ runs < MaxRuns
    /\ orch' = name
    /\ pc' = first
    /\ absentAtStart' = ~histExists
    /\ builderCalled' = FALSE
    /\ runs' = runs + 1
    /\ runError' = "none"
    /\ atStart' = Artifacts
    /\ procState' = "idle"
    /\ cmpState' = "idle"
    /\ UNCHANGED <<processed, current, compared, ledgerVars, builderCalls>>
    /\ UNCHANGED <<ingestVars, baselineVars, dashVars>>

\* an exception leaves the orchestrator
abort_run == pc' = "idle" /\ orch' = "none"

\* update_data.main
StartUpdateData ==
    /\ pc = "idle"
    /\ start_run("update_data", "historical_check")

\* historical_check: the file is there
HistoricalCheckExists ==
    /\ orch = "update_data" /\ pc = "historical_check"
    /\ histExists
    /\ pc' = "fetch_data"
    /\ UNCHANGED <<orch, absentAtStart, atStart, builderCalled, builderCalls, ledgerVars, runs, runError>>
    /\ UNCHANGED <<ingestVars, baselineVars, processVars, compareVars, dashVars>>

\* historical_check: the file is missing and historical_main is called
HistoricalCheckFetches ==
    /\ orch = "update_data" /\ pc = "historical_check"
    /\ ~histExists
    /\ builderCalled' = TRUE
    /\ builderCalls' = builderCalls + 1
    /\ \/ (historical_main_nothing \/ historical_main_builds)
            /\ pc' = "fetch_data" /\ UNCHANGED <<orch, runError>>
       \/ historical_main_raises /\ abort_run /\ runError' = "fetch_historical"
    /\ UNCHANGED <<absentAtStart, atStart, ledgerVars, runs>>
    /\ UNCHANGED <<ingestVars, processVars, compareVars, dashVars>>

\* update: fetch_data_main, in this process
UpdateFetchData ==
    /\ orch = "update_data" /\ pc = "fetch_data"
    /\ \/ (fetch_data_main_nothing \/ fetch_data_main_appends)
            /\ pc' = "compare" /\ UNCHANGED <<orch, runError>>
       \/ fetch_data_main_raises /\ abort_run /\ UNCHANGED runError
       \/ fetch_data_main_transport_error /\ abort_run /\ runError' = "fetch_data"
    /\ UNCHANGED <<absentAtStart, atStart, builderCalled, builderCalls, ledgerVars, runs>>
    /\ UNCHANGED <<baselineVars, processVars, compareVars, dashVars>>

\* update: p90_rate_of_change_main
UpdateCompare ==
    /\ orch = "update_data" /\ pc = "compare"
    /\ p90_rate_of_change_main
    /\ pc' = "log_update"
    /\ UNCHANGED <<orch, absentAtStart, atStart, builderCalled, builderCalls, ledgerVars, runs, runError>>
    /\ UNCHANGED <<ingestVars, baselineVars, processVars, dashVars>>

\* update: log_update at the current time
UpdateLog ==
    /\ orch = "update_data" /\ pc = "log_update"
    /\ log_update_at(now)
    /\ pc' = "idle"
    /\ orch' = "none"
    /\ UNCHANGED <<absentAtStart, atStart, builderCalled, builderCalls, runs, runError>>
    /\ UNCHANGED <<ingestVars, baselineVars, processVars, compareVars, dashVars>>

\* update_pipeline.main
StartUpdatePipeline ==
    /\ pc = "idle"
    /\ start_run("update_pipeline", "run_fetch_data")

\* run("fetch_data.py"): a failure of the child is only printed
PipelineFetchData ==
    /\ orch = "update_pipeline" /\ pc = "run_fetch_data"
    /\ \/ (fetch_data_main_nothing \/ fetch_data_main_appends \/ fetch_data_main_raises)
            /\ UNCHANGED runError
       \/ fetch_data_main_transport_error /\ runError' = "fetch_data"
    /\ pc' = "check_historical"
    /\ UNCHANGED <<orch, absentAtStart, atStart, builderCalled, builderCalls, ledgerVars, runs>>
    /\ UNCHANGED <<baselineVars, processVars, compareVars, dashVars>>

\* HISTORICAL_FILE exists: the historical fetch is skipped
PipelineHistoricalExists ==
    /\ orch = "update_pipeline" /\ pc = "check_historical"
    /\ histExists
    /\ pc' = "run_process"
    /\ UNCHANGED <<orch, absentAtStart, atStart, builderCalled, builderCalls, ledgerVars, runs, runError>>
    /\ UNCHANGED <<ingestVars, baselineVars, processVars, compareVars, dashVars>>

\* run("fetch_historical.py"): a failure of the child is only printed
PipelineFetchHistorical ==
    /\ orch = "update_pipeline" /\ pc = "check_historical"
    /\ ~histExists
    /\ builderCalled' = TRUE
    /\ builderCalls' = builderCalls + 1
    /\ \/ (historical_main_nothing \/ historical_main_builds) /\ UNCHANGED runError
       \/ historical_main_raises /\ runError' = "fetch_historical"
    /\ pc' = "run_process"
    /\ UNCHANGED <<orch, absentAtStart, atStart, ledgerVars, runs>>
    /\ UNCHANGED <<ingestVars, processVars, compareVars, dashVars>>

\* run("process_gauge_data.py"): a failure of the child is only printed
PipelineProcess ==
    /\ orch = "update_pipeline" /\ pc = "run_process"
    /\ process_gauge_data_script
    /\ pc' = "idle"
    /\ orch' = "none"
    /\ UNCHANGED <<absentAtStart, atStart, builderCalled, builderCalls, ledgerVars, runs, runError>>
    /\ UNCHANGED <<ingestVars, baselineVars, compareVars, dashVars>>

-----------------------------------------------------------------------------
(* The dashboard's refresh callback: main.py update_map                    *)

\* the threads of the development server that serve update_map
Threads == {1, 2}

\* a callback: the step of update_pipeline.main it is about to take, the
\* rows its fetch_data.py process has fetched, and the frame its
\* append_and_trim has read and concatenated
IdleCallback == [pc |-> "idle", df |-> <<>>, df_all |-> <<>>]

\* append_and_trim up to the concatenation: the file is read
append_read(df_new) ==
    IF fileExists THEN store \o df_new ELSE df_new

\* append_and_trim from the filter on: the frame is trimmed and written
trim_write(df_all, hours) ==
    LET cutoff_time == now - hours * 3600
        Keep(r) == r.timestamp_utc >= cutoff_time
    IN  SelectSeq(df_all, Keep)

\* a request for the map's figure arrives and update_map calls
\* update_pipeline.main on a thread of the server
CallbackStart(t) ==
    /\ callbacks[t].pc = "idle"
    /\ runs < MaxRuns
    /\ runs' = runs + 1
    /\ callbacks' = [callbacks EXCEPT ![t].pc = "run_fetch_data"]
    /\ UNCHANGED <<mapView, pageView>>
    /\ UNCHANGED <<orch, pc, absentAtStart, atStart, builderCalled, builderCalls,
                   ledgerVars, runError>>
    /\ UNCHANGED <<ingestVars, baselineVars, processVars, compareVars>>

\* fetch_data.py: the last timestamp is read and the readings are fetched
CallbackFetch(t) ==
    /\ callbacks[t].pc = "run_fetch_data"
    /\ load_last_timestamp # NaT
    /\ ~fetch_va_iv_raises(load_last_timestamp)
    /\ LET df == fetch_va_iv_since(load_last_timestamp)
       IN  callbacks' = [callbacks EXCEPT
               ![t].df = df,
               ![t].pc = IF df = <<>> THEN "check_historical" ELSE "append_read"]
    /\ lastOp' = "fetched"
    /\ UNCHANGED <<now, published, fileExists, store, lastDropped>>
    /\ UNCHANGED <<mapView, pageView>>
    /\ UNCHANGED <<baselineVars, processVars, compareVars, pipeVars>>

\* fetch_data.py: append_and_trim reads the file and appends the new rows
CallbackRead(t) ==
    /\ callbacks[t].pc = "append_read"
    /\ callbacks' = [callbacks EXCEPT
           ![t].df_all = append_read(callbacks[t].df),
           ![t].pc = "append_write"]
    /\ lastOp' = "read"
    /\ UNCHANGED <<now, published, fileExists, store, lastDropped>>
    /\ UNCHANGED <<mapView, pageView>>
    /\ UNCHANGED <<baselineVars, processVars, compareVars, pipeVars>>

\* fetch_data.py: append_and_trim writes the trimmed frame over the file
CallbackWrite(t) ==
    /\ callbacks[t].pc = "append_write"
    /\ store' = trim_write(callbacks[t].df_all, HorizonHours)
    /\ fileExists' = TRUE
    /\ lastOp' = "append_and_trim"
    /\ lastDropped' = Len(callbacks[t].df_all) - Len(store')
    /\ callbacks' = [callbacks EXCEPT
           ![t].df = <<>>, ![t].df_all = <<>>, ![t].pc = "check_historical"]
    /\ UNCHANGED <<now, published>>
    /\ UNCHANGED <<mapView, pageView>>
    /\ UNCHANGED <<baselineVars, processVars, compareVars, pipeVars>>

\* update_pipeline.main: the historical fetch, unless the file exists
CallbackHistorical(t) ==
    /\ callbacks[t].pc = "check_historical"
    /\ IF histExists THEN UNCHANGED baselineVars
       ELSE \/ historical_main_nothing
            \/ historical_main_builds
            \/ historical_main_raises
    /\ callbacks' = [callbacks EXCEPT ![t].pc = "run_process"]
    /\ UNCHANGED <<mapView, pageView>>
    /\ UNCHANGED <<ingestVars, processVars, compareVars, pipeVars>>

\* update_pipeline.main: process_gauge_data.py
CallbackProcess(t) ==
    /\ callbacks[t].pc = "run_process"
    /\ process_gauge_data_script
    /\ callbacks' = [callbacks EXCEPT ![t].pc = "read_data_file"]
    /\ UNCHANGED <<mapView, pageView>>
    /\ UNCHANGED <<ingestVars, baselineVars, compareVars, pipeVars>>

\* update_map: the processed file is read and the figure returned; without
\* the file read_csv raises and no figure is returned
CallbackBuildMap(t) ==
    /\ callbacks[t].pc = "read_data_file"
    /\ mapView' = IF processed # <<>> THEN build_map(processed, 1) ELSE mapView
    /\ callbacks' = [callbacks EXCEPT ![t].pc = "idle"]
    /\ UNCHANGED pageView
    /\ UNCHANGED <<ingestVars, baselineVars, processVars, compareVars, pipeVars>>

-----------------------------------------------------------------------------
(* Specifications                                                          *)

IngestIdle ==
    /\ now = StartTime
    /\ published = {}
    /\ fileExists = FALSE
    /\ store = <<>>
    /\ lastOp = "init"
    /\ lastDropped = 0

ProcessIdle ==
    /\ processed = <<>>
    /\ procState = "idle"

CompareIdle ==
    /\ current = <<>>
    /\ compared = <<>>
    /\ cmpState = "idle"

DashIdle ==
    /\ mapView = <<>>
    /\ pageView = <<>>
    /\ callbacks = [t \in Threads |-> IdleCallback]

PipeIdle ==
    /\ orch = "none"
    /\ pc = "idle"
    /\ absentAtStart = FALSE
    /\ builderCalled = FALSE
    /\ updateLog = <<>>
    /\ logHistory = <<>>
    /\ logAppends = 0
    /\ runs = 0
    /\ runError = "none"
    /\ atStart = NoArtifacts
    /\ builderCalls = 0

BaselineIdle ==
    /\ archive = {}
    /\ histExists = FALSE
    /\ baseline = <<>>
    /\ histInput = {}
    /\ histState = "idle"

IngestInit ==
    IngestIdle /\ BaselineIdle /\ ProcessIdle /\ CompareIdle /\ DashIdle /\ PipeIdle

IngestNext ==
    \/ Tick
    \/ Publish
    \/ FetchDataFails
    \/ FetchDataEmpty
    \/ FetchDataAppend

SpecIngest == IngestInit /\ [][IngestNext]_vars

\* fetch_data.py on one answer of the service
ParseInit ==
    /\ now = StartTime
    /\ published \in ParseBatches
    /\ fileExists = FALSE
    /\ store = <<>>
    /\ lastOp = "init"
    /\ lastDropped = 0
    /\ BaselineIdle /\ ProcessIdle /\ CompareIdle /\ DashIdle /\ PipeIdle

ParseNext ==
    \/ FetchDataEmpty
    \/ FetchDataAppend
    \/ FetchDataKeyError

SpecParse == ParseInit /\ [][ParseNext]_vars

BaselineInit ==
    IngestIdle /\ BaselineIdle /\ ProcessIdle /\ CompareIdle /\ DashIdle /\ PipeIdle

BaselineNext ==
    \/ ArchiveSample
    \/ FetchHistoricalEmpty
    \/ FetchHistoricalBuild

SpecBaseline == BaselineInit /\ [][BaselineNext]_vars

\* the latest-value path on a built baseline and a fetched gauge file
ProcessInit ==
    /\ now = LatestTime
    /\ published = {}
    /\ fileExists = FALSE
    /\ store = <<>>
    /\ lastOp = "init"
    /\ lastDropped = 0
    /\ \E held \in ProcessArchives :
          /\ archive = held
          /\ histInput = held
          /\ baseline = compute_p90_by_day(fetch_va_dv_chunk(held))
    /\ histExists = TRUE
    /\ histState = "idle"
    /\ ProcessIdle
    /\ CompareIdle
    /\ DashIdle
    /\ PipeIdle

ProcessNext ==
    \/ GaugeFetched
    \/ ProcessGaugeData

SpecProcess == ProcessInit /\ [][ProcessNext]_vars

\* the bulk path on a built baseline and the current files
CompareInit == ProcessInit

CompareNext ==
    \/ CurrentReading
    \/ CompareNoData
    \/ CompareMain

SpecCompare == CompareInit /\ [][CompareNext]_vars

\* the stages run one by one in a data directory that earlier runs filled,
\* while the services answer without a reading of the stored sites
EmptyStores ==
    {<<>>,
     <<[site_no |-> 1, timestamp_utc |-> StartTime - TickSeconds,
        flow_cfs |-> Num(12)]>>}

EmptyBaselines == {{}} \cup ProcessArchives

EmptyOutputs(hist) ==
    {<<>>,
     compare_to_historical(
         prepare_current_data(compute_rate_of_change(
             <<[site_no |-> 1, region |-> "north", flow_cfs |-> Num(12),
                timestamp_utc |-> SeriesStart]>>)),
         hist, 1)}

EmptyInit ==
    /\ now = StartTime
    /\ published = {}
    /\ \E kept \in EmptyStores :
          /\ store = kept
          /\ fileExists = (kept # <<>>)
    /\ lastOp = "init"
    /\ lastDropped = 0
    /\ archive = {}
    /\ \E held \in EmptyBaselines :
          /\ histInput = held
          /\ histExists = (held # {})
          /\ baseline = IF held = {} THEN <<>>
                        ELSE compute_p90_by_day(fetch_va_dv_chunk(held))
    /\ histState = "idle"
    /\ ProcessIdle
    /\ current = <<>>
    /\ compared \in (IF histExists THEN EmptyOutputs(baseline) ELSE {<<>>})
    /\ cmpState = "idle"
    /\ DashIdle
    /\ PipeIdle

EmptyNext ==
    \/ Publish
    \/ FetchDataEmpty
    \/ FetchDataAppend
    \/ FetchHistoricalEmpty
    \/ CompareNoData

SpecEmpty == EmptyInit /\ [][EmptyNext]_vars

\* fetch_data.py run again and again on a data directory an earlier run
\* filled, from a service that no longer answers with the stored reading
RetentionInit ==
    /\ now = StartTime
    /\ published = {}
    /\ \E kept \in EmptyStores :
          /\ store = kept
          /\ fileExists = (kept # <<>>)
    /\ lastOp = "init"
    /\ lastDropped = 0
    /\ BaselineIdle /\ ProcessIdle /\ CompareIdle /\ DashIdle /\ PipeIdle

RetentionNext ==
    \/ Tick
    \/ Publish
    \/ FetchDataFails
    \/ FetchDataEmpty
    \/ FetchDataAppend

SpecRetention == RetentionInit /\ [][RetentionNext]_vars

\* the dashboard on a processed file
DashboardInit ==
    IngestIdle /\ BaselineIdle /\ ProcessIdle /\ CompareIdle /\ DashIdle /\ PipeIdle

DashboardNext ==
    \/ DataFileRow
    \/ BuildMap
    \/ DisplayPage

SpecDashboard == DashboardInit /\ [][DashboardNext]_vars

\* the dashboard on the files process_gauge_data.py can write: one record per
\* site, the flow null, zero or positive, the p90 null, the kept sentinel,
\* zero (a curve without a known day) or positive, the ratio their quotient
StatusFlows == {NaN, Num(0), Num(10)}

StatusP90s == {NaN, Num(-9999), Num(0), Num(10)}

StatusRows(site) ==
    {[site_no |-> site, timestamp_utc |-> LatestTime, flow_cfs |-> flow,
      pct_change_3h |-> NaN, p90_flow_cfs |-> p90,
      ratio |-> process_ratio(flow, p90)] : flow \in StatusFlows, p90 \in StatusP90s}

StatusFiles ==
    {<<r>> : r \in StatusRows(1) \cup StatusRows(2)}
      \cup {<<r, q>> : r \in StatusRows(1), q \in StatusRows(2)}

StatusInit ==
    /\ IngestIdle /\ BaselineIdle
    /\ processed \in StatusFiles
    /\ procState = "idle"
    /\ CompareIdle /\ DashIdle /\ PipeIdle

StatusNext ==
    \/ BuildMap
    \/ DisplayPage

SpecStatus == StatusInit /\ [][StatusNext]_vars

\* the served dashboard on a data directory that holds a baseline
ServedInit ==
    /\ IngestIdle
    /\ archive = {[site_no |-> 1, site_name |-> 1, dateTime |-> 1 * SecondsPerDay,
                   value |-> "10"]}
    /\ histExists = TRUE
    /\ baseline = compute_p90_by_day(fetch_historical_data)
    /\ histInput = archive
    /\ histState = "idle"
    /\ ProcessIdle /\ CompareIdle /\ DashIdle /\ PipeIdle

ServedNext ==
    \/ Publish
    \/ \E t \in Threads :
          \/ CallbackStart(t)
          \/ CallbackFetch(t)
          \/ CallbackRead(t)
          \/ CallbackWrite(t)
          \/ CallbackHistorical(t)
          \/ CallbackProcess(t)
          \/ CallbackBuildMap(t)

SpecServed == ServedInit /\ [][ServedNext]_vars

\* what the upstream services and the current files hold when the
\* orchestrators run: nothing, or one value
PipelinePublished ==
    {{}, {[site_no |-> 1, timestamp_utc |-> StartTime, value |-> "12"]}}

PipelineArchives ==
    {{}, {[site_no |-> 1, site_name |-> 1, dateTime |-> 1 * SecondsPerDay, value |-> "10"]}}

PipelineCurrent ==
    {<<>>, <<[site_no |-> 1, region |-> "north", flow_cfs |-> Num(12),
              timestamp_utc |-> SeriesStart]>>}

\* runs of the two orchestrators on a fresh data directory
PipelineInit ==
    /\ now = StartTime
    /\ published \in PipelinePublished
    /\ fileExists = FALSE
    /\ store = <<>>
    /\ lastOp = "init"
    /\ lastDropped = 0
    /\ archive \in PipelineArchives
    /\ histExists = FALSE
    /\ baseline = <<>>
    /\ histInput = {}
    /\ histState = "idle"
    /\ ProcessIdle
    /\ current \in PipelineCurrent
    /\ compared = <<>>
    /\ cmpState = "idle"
    /\ DashIdle
    /\ PipeIdle

PipelineNext ==
    \/ StartUpdateData
    \/ HistoricalCheckExists
    \/ HistoricalCheckFetches
    \/ UpdateFetchData
    \/ UpdateCompare
    \/ UpdateLog
    \/ StartUpdatePipeline
    \/ PipelineFetchData
    \/ PipelineHistoricalExists
    \/ PipelineFetchHistorical
    \/ PipelineProcess

SpecPipeline == PipelineInit /\ [][PipelineNext]_vars

\* log_update on a ledger of any length
LedgerInit ==
    /\ IngestIdle /\ BaselineIdle /\ ProcessIdle /\ CompareIdle /\ DashIdle
    /\ orch = "none"
    /\ pc = "idle"
    /\ absentAtStart = FALSE
    /\ builderCalled = FALSE
    /\ runs = 0
    /\ runError = "none"
    /\ atStart = NoArtifacts
    /\ builderCalls = 0
    /\ \E k \in PriorLengths :
          updateLog = [i \in 1..k |-> StartTime - (k - i + 1)]
    /\ logHistory = updateLog
    /\ logAppends = 0

LedgerNext == LogUpdate

SpecLedger == LedgerInit /\ [][LedgerNext]_vars

-----------------------------------------------------------------------------
(* Claims                                                                  *)

\* the startDT the next request would carry
RequestStart == strftime_minute(load_last_timestamp)

\* C1: every request starts strictly after the latest stored timestamp, and
\* no reading (same site_no and timestamp_utc) is in the store twice
C1_NoReadingStoredTwice ==
    /\ (fileExists /\ store # <<>>) => RequestStart > SetMax(RowTimes(store))
    /\ \A i, j \in 1..Len(store) :
          (/\ store[i].site_no = store[j].site_no
           /\ store[i].timestamp_utc = store[j].timestamp_utc) => i = j

\* C2: right after append_and_trim no stored reading is older than
\* now - 24 hours
C2_RetentionTrim ==
    lastOp = "append_and_trim" =>
        \A i \in 1..Len(store) : store[i].timestamp_utc >= now - HorizonSeconds

\* a trim that dropped old rows and kept recent ones
C2_Witness ==
    /\ lastOp = "append_and_trim"
    /\ lastDropped > 0
    /\ store # <<>>

BaselineSites == {baseline[i].site_no : i \in 1..Len(baseline)}

\* C3: every site_no of the baseline has exactly 365 rows, one for each
\* day_of_year 1..365, and no null p90_flow_cfs
C3_BaselineDensity ==
    \A s \in BaselineSites :
        LET rows == {i \in 1..Len(baseline) : baseline[i].site_no = s}
        IN  /\ Cardinality(rows) = DaysInCurve
            /\ \A d \in Days :
                  Cardinality({i \in rows : baseline[i].day_of_year = d}) = 1
            /\ \A i \in rows : ~IsNaN(baseline[i].p90_flow_cfs)

\* a daily value that is a reading: not null, numeric, not the sentinel
ValidSample(raw) == raw \notin {"Ice", "nan", "-9999"}

\* C4: a site is in the baseline exactly when the fetched history holds a
\* valid sample of it
C4_BaselineExclusion ==
    histExists =>
        \A s \in Sites :
            s \in BaselineSites <=>
                \E a \in histInput : a.site_no = s /\ ValidSample(a.value)

\* C5: in every classified record the ratio is null exactly when the p90 is
\* null or zero
C5_RatioNullity ==
    /\ \A i \in 1..Len(processed) :
          IsNaN(processed[i].ratio) <=>
            (IsNaN(processed[i].p90_flow_cfs) \/ IsZero(processed[i].p90_flow_cfs))
    /\ \A i \in 1..Len(compared) :
          IsNaN(compared[i].ratio) <=>
            (IsNaN(compared[i].p90_flow_cfs) \/ IsZero(compared[i].p90_flow_cfs))

\* the p90 values the baseline holds for a site on a day
BaselineP90(site, day) ==
    {baseline[i].p90_flow_cfs : i \in
        {k \in 1..Len(baseline) :
            baseline[k].site_no = site /\ baseline[k].day_of_year = day}}

\* C6: the classifier buckets a current reading on the day_of_year the
\* Baseline Builder gives the same instant (the US/Eastern date), so the
\* record carries the p90 of that day
C6_SameDayBucket ==
    \A i \in 1..Len(processed) :
        LET r == processed[i]
            day == builder_day_of_year(r.timestamp_utc)
        IN  /\ current_day_of_year(r.timestamp_utc) = day
            /\ IF BaselineP90(r.site_no, day) = {} THEN IsNaN(r.p90_flow_cfs)
               ELSE r.p90_flow_cfs \in BaselineP90(r.site_no, day)

\* (latest - reference) / reference * 100, null for a zero reference
PctChange(latest, reference) ==
    IF IsZero(reference) THEN NaN
    ELSE FTimes100(FDiv(FSub(latest, reference), reference))

StoreRowsOf(site) == {i \in 1..Len(store) : store[i].site_no = site}

\* the readings of a site within 30 minutes of its latest timestamp - 3h
Candidates(site) ==
    LET latest == SetMax({store[i].timestamp_utc : i \in StoreRowsOf(site)})
    IN  {i \in StoreRowsOf(site) :
            Abs(store[i].timestamp_utc - (latest - 3 * 3600)) <= 30 * 60}

\* C8: each site's record carries the percent change from a reading of that
\* site nearest to (latest - 3h) within 30 minutes, inclusive, to the site's
\* latest reading; null for a zero reference and without such a reading
C8_NearestNeighbourRoc ==
    procState = "saved" =>
        /\ \A s \in {store[i].site_no : i \in 1..Len(store)} :
              \E i \in 1..Len(processed) : processed[i].site_no = s
        /\ \A i \in 1..Len(processed) :
              LET r == processed[i]
                  rows == StoreRowsOf(r.site_no)
                  latest == SetMax({store[k].timestamp_utc : k \in rows})
                  target == latest - 3 * 3600
                  Dist(k) == Abs(store[k].timestamp_utc - target)
                  cands == Candidates(r.site_no)
              IN  /\ rows # {}
                  /\ r.timestamp_utc = latest
                  /\ IF cands = {} THEN IsNaN(r.pct_change_3h)
                     ELSE \E c \in cands :
                            /\ \A o \in cands : Dist(c) <= Dist(o)
                            /\ \E l \in rows :
                                  /\ store[l].timestamp_utc = latest
                                  /\ r.pct_change_3h =
                                        PctChange(store[l].flow_cfs, store[c].flow_cfs)

\* a record with a percent change chosen among two candidates at different
\* distances, one of them on the 30-minute boundary
C8_Witness ==
    /\ procState = "saved"
    /\ \E i \in 1..Len(processed) :
          /\ IsNum(processed[i].pct_change_3h)
          /\ ~IsZero(processed[i].pct_change_3h)
          /\ \E a, b \in Candidates(processed[i].site_no) :
                /\ store[a].timestamp_utc = TargetTime - 30 * 60
                /\ store[b].timestamp_utc = TargetTime + 10 * 60

\* the position of a written record in its site's sorted sequence
PositionOf(r) ==
    CHOOSE t \in 1..Len(SeriesOf(r.site_no)) :
        SeriesOf(r.site_no)[t].timestamp_utc = r.timestamp_utc

\* the percent change against the reading w positions earlier in the same
\* site's sequence, null without that reading or when it is zero or null
OffsetRoc(r, w) ==
    LET seq == SeriesOf(r.site_no)
        t == PositionOf(r)
    IN  IF t - w < 1 THEN NaN
        ELSE IF IsNaN(seq[t - w].flow_cfs) \/ IsZero(seq[t - w].flow_cfs) THEN NaN
        ELSE FTimes100(FDiv(FSub(seq[t].flow_cfs, seq[t - w].flow_cfs),
                            seq[t - w].flow_cfs))

\* C7: every written record carries, for the windows of 12, 36 and 72
\* samples, the percent change against the reading that many positions
\* earlier in its own site's sequence, and null when that reading does not
\* exist or is zero or null
C7_OffsetRoc ==
    \A i \in 1..Len(compared) :
        /\ compared[i].pct_change_1h = OffsetRoc(compared[i], 12)
        /\ compared[i].pct_change_3h = OffsetRoc(compared[i], 36)
        /\ compared[i].pct_change_6h = OffsetRoc(compared[i], 72)

\* the trend band a colour of the map or of the gauge page stands for
BandOfColor(color) ==
    IF color \in {"#808080", "#5A4A2F"} THEN "missing"
    ELSE IF color = "#A18F65" THEN "stable/declining"
    ELSE IF color = "#5279A8" THEN "moderate rise"
    ELSE "sharp rise"

\* the trend band of a stored rate of change
TrendBand(x) ==
    IF IsNaN(x) THEN "missing"
    ELSE IF Leq(x, Num(0)) THEN "stable/declining"
    ELSE IF Leq(x, Num(25)) THEN "moderate rise"
    ELSE "sharp rise"

\* C9: the map marker and the gauge page of a record both show the trend
\* band of the record's stored pct_change_3h: null is missing, at most 0 is
\* stable/declining, above 0 up to 25 is a moderate rise, above 25 is a
\* sharp rise
C9_TrendBands ==
    /\ \A i \in 1..Len(mapView) :
          BandOfColor(mapView[i].color_group)
              = TrendBand(processed[mapView[i].site_id].pct_change_3h)
    /\ \A i \in 1..Len(pageView) :
          BandOfColor(pageView[i].title_color)
              = TrendBand(processed[pageView[i].site_id].pct_change_3h)

\* the run has reached its classifier stage
ClassifierStage ==
    \/ pc \in {"compare", "log_update", "run_process"}
    \/ procState # "idle"
    \/ cmpState # "idle"

\* C10: a run that began without the baseline has called the Baseline
\* Builder when it reaches the classifier; a classifier writes its output
\* only while the baseline exists; and no classifier crashes because the
\* baseline is absent
C10_BaselineBeforeClassifier ==
    /\ (absentAtStart /\ ClassifierStage) => builderCalled
    /\ (procState = "saved" \/ cmpState = "saved") => histExists
    /\ procState # "crashed_no_baseline"

\* the n most recent of the timestamps the ledger ever received
MostRecent(n) ==
    SubSeq(logHistory, Len(logHistory) - n + 1, Len(logHistory))

\* C11: after a log_update the ledger holds at most 100 entries, they are
\* the most recent min(100, n) of the n timestamps ever appended, in append
\* order, and the last one is the entry just appended
C11_LedgerKeepsMostRecent ==
    logAppends > 0 =>
        /\ Len(updateLog) <= 100
        /\ updateLog = MostRecent(IF Len(logHistory) < 100 THEN Len(logHistory) ELSE 100)
        /\ updateLog[Len(updateLog)] = logHistory[Len(logHistory)]

\* a log_update has evicted the oldest entries of a full ledger
C11_Witness ==
    /\ logAppends > 1
    /\ Len(logHistory) > 100
    /\ Len(updateLog) = 100
    /\ updateLog[1] # logHistory[1]

\* C12: once a fetch stage of a run has failed with a transport error, the
\* run has ended and none of its later stages has executed
C12_TransportErrorEndsRun ==
    runError # "none" =>
        /\ pc = "idle"
        /\ procState = "idle"
        /\ cmpState = "idle"

\* a stage of the run has failed
RunFailed ==
    \/ runError # "none"
    \/ procState \in {"crashed_no_gauge_file", "crashed_no_baseline"}

\* C13: when a stage of a run has failed, every artifact that was persisted
\* when the run began is as it was then
C13_FailedRunLeavesArtifacts ==
    RunFailed =>
        /\ atStart.gauge_data[1] => Artifacts.gauge_data = atStart.gauge_data
        /\ atStart.historical_p90[1] => Artifacts.historical_p90 = atStart.historical_p90
        /\ atStart.gauge_data_processed # <<>> =>
              Artifacts.gauge_data_processed = atStart.gauge_data_processed
        /\ atStart.high_flow_with_roc # <<>> =>
              Artifacts.high_flow_with_roc = atStart.high_flow_with_roc
        /\ atStart.update_log # <<>> => Artifacts.update_log = atStart.update_log

\* the flow a reading is stored with: its number, null for anything else
StoredFlow(raw) == IF raw = "12" THEN Num(12) ELSE NaN

\* C14: after a fetch every reading of the answer is in the Reading Store,
\* with a null flow when its value is malformed, non-numeric, the sentinel
\* -9999 or missing
C14_ParseErrorsPerRecord ==
    lastOp \in {"append_and_trim", "nothing_to_update", "key_error"} =>
        \A p \in published :
            \E i \in 1..Len(store) :
                /\ store[i].site_no = p.site_no
                /\ store[i].timestamp_utc = p.timestamp_utc
                /\ store[i].flow_cfs = StoredFlow(p.value)

\* the records written for a current reading
RecordsOf(r) ==
    {i \in 1..Len(compared) :
        /\ compared[i].site_no = r.site_no
        /\ compared[i].timestamp_utc = r.timestamp_utc}

\* C15: the join writes exactly one record per current reading, with the p90
\* the baseline holds for the reading's site and day, or a null p90
C15_OneRecordPerReading ==
    cmpState = "saved" =>
        \A k \in 1..Len(current) :
            ~IsNaN(current[k].flow_cfs) =>
                /\ Cardinality(RecordsOf(current[k])) = 1
                /\ \A i \in RecordsOf(current[k]) :
                      LET p90s == BaselineP90(current[k].site_no,
                                      current_day_of_year(current[k].timestamp_utc))
                      IN  IF p90s = {} THEN IsNaN(compared[i].p90_flow_cfs)
                          ELSE compared[i].p90_flow_cfs \in p90s

\* a ratio that is a number of at least 1, or +inf
AtLeastOne(ratio) ==
    \/ ratio.k = "num" /\ ratio.n >= ratio.d
    \/ ratio.k = "inf" /\ ratio.n = 1

\* flow < p90 and flow = p90 for two numbers, without a division
FlowBelow(flow, p90) == flow.n * p90.d < p90.n * flow.d
FlowEquals(flow, p90) == flow.n * p90.d = p90.n * flow.d

C17_BuilderInvokedOnce ==
    builderCalls <= 1

\* the callbacks whose pipeline run is under way
Running == {t \in Threads : callbacks[t].pc # "idle"}

\* C18: at most one pipeline run is under way at a time, and a run that is
\* about to write gauge_data.csv has read every row the file holds
C18_RunsSerialized ==
    /\ Cardinality(Running) <= 1
    /\ \A t \in Threads :
          (callbacks[t].pc = "append_write" /\ fileExists) =>
              \A i \in 1..Len(store) :
                  \E j \in 1..Len(callbacks[t].df_all) :
                      callbacks[t].df_all[j] = store[i]

\* the live fetch would answer without a reading
EmptyFetch ==
    /\ load_last_timestamp # NaT
    /\ ~fetch_va_iv_raises(load_last_timestamp)
    /\ fetch_va_iv_since(load_last_timestamp) = <<>>

\* C19: a stage run on an empty input is a no-op that returns normally: while
\* the live fetch has no reading, no step changes the Reading Store and
\* fetch_data.main ends on "nothing to update"; while the historical fetch
\* has no data, no step changes the baseline artifact and fetch_historical.main
\* ends on "no data"; while there is no current data, no step writes the
\* comparison output and compare_p90_roc.main ends on "no data".
C19_EmptyInputsNoOp ==
    [][/\ EmptyFetch =>
            /\ UNCHANGED <<fileExists, store>>
            /\ lastOp' \in {lastOp, "publish", "nothing_to_update"}
       /\ fetch_historical_data = {} =>
            /\ UNCHANGED <<histExists, baseline>>
            /\ histState' \in {histState, "no_data"}
       /\ current = <<>> =>
            /\ UNCHANGED compared
            /\ cmpState' \in {cmpState, "no_data"}]_vars

\* the three stages have returned on empty inputs in a directory that holds a
\* Reading Store, a baseline and a comparison output
C19_Witness ==
    /\ lastOp = "nothing_to_update" /\ fileExists /\ store # <<>>
    /\ histState = "no_data" /\ histExists /\ baseline # <<>>
    /\ cmpState = "no_data" /\ compared # <<>>

\* the rows compute_p90_by_day groups: the fetched history of the last build,
\* each row on its day_of_year
BuiltFrom ==
    {[site_no |-> r.site_no, site_name |-> r.site_name, flow_cfs |-> r.flow_cfs,
      day_of_year |-> builder_day_of_year(r.date)] : r \in fetch_va_dv_chunk(histInput)}

\* the days of a year on which a sample can fall
YearDays == 1..(DaysInCurve + 1)

\* the quantile computed for a (site_no, site_name) group on a day
ComputedP90(g, d) ==
    quantile90({r \in BuiltFrom :
                  r.site_no = g[1] /\ r.site_name = g[2] /\ r.day_of_year = d})

\* K: the days on which the computed quantile of the group exists
KnownDays(g) == {d \in YearDays : ~IsNaN(ComputedP90(g, d))}

\* the p90 values the baseline holds for a group on a day
CurveP90(g, d) ==
    {baseline[i].p90_flow_cfs : i \in
        {k \in 1..Len(baseline) :
            /\ baseline[k].site_no = g[1]
            /\ baseline[k].site_name = g[2]
            /\ baseline[k].day_of_year = d}}

\* the value the rule gives a missing day d of a group with known days K
GapFill(g, K, d) ==
    IF d < SetMin(K) THEN ComputedP90(g, SetMin(K))
    ELSE IF d > SetMax(K) THEN ComputedP90(g, SetMax(K))
    ELSE LET a == SetMax({k \in K : k < d})
             b == SetMin({k \in K : k > d})
         IN  FAdd(ComputedP90(g, a),
                  FScale(FSub(ComputedP90(g, b), ComputedP90(g, a)), d - a, b - a))

\* C20: for a site whose computed quantiles exist on the days K, the baseline
\* holds the computed value on every day of K, the linear interpolation
\* between the neighbouring known days on every missing day between two of
\* them, the value at min(K) on every missing day before it and the value at
\* max(K) on every missing day after it.
C20_GapFilling ==
    histExists =>
        \A g \in site_groups(BuiltFrom) :
            LET K == KnownDays(g)
            IN  K # {} =>
                  /\ \A d \in K : CurveP90(g, d) = {ComputedP90(g, d)}
                  /\ \A d \in Days \ K : CurveP90(g, d) = {GapFill(g, K, d)}

\* the reading of a site with the maximum timestamp in gauge_data.csv
LatestReading(site) ==
    LET rows == {store[i] : i \in {k \in 1..Len(store) : store[k].site_no = site}}
    IN  CHOOSE r \in rows : \A o \in rows : o.timestamp_utc <= r.timestamp_utc

\* C21: every processed record is one real reading: it carries the maximum
\* timestamp of its site and the flow of the reading at that timestamp, null
\* when that flow is null, the flow compute_pct_change_3h took as latest.
C21_RecordIsLatestReading ==
    procState = "saved" =>
        \A i \in 1..Len(processed) :
            LET r == processed[i]
                latest == LatestReading(r.site_no)
            IN  /\ r.timestamp_utc = latest.timestamp_utc
                /\ r.flow_cfs = latest.flow_cfs

\* C22: right after every completed run of fetch_data.main, one that appended
\* and one that fetched nothing alike, no stored reading is older than
\* now - 24 hours.
C22_RetentionAfterEveryRun ==
    lastOp \in {"append_and_trim", "nothing_to_update"} =>
        \A i \in 1..Len(store) : store[i].timestamp_utc >= now - HorizonSeconds

\* the classification rule: the ratio is not null and at least 1.0
HighFlowRule(ratio) == ~IsNaN(ratio) /\ Geq(ratio, Num(1))

\* C23: the map and the gauge page report "HIGH FLOW" for a record exactly
\* when the record's ratio is not null and at least 1.0, whatever its flow
\* and its p90 (zero, negative and null p90 included).
C23_StatusAgreesWithRule ==
    /\ \A i \in 1..Len(mapView) :
          (mapView[i].status = "HIGH FLOW")
              <=> HighFlowRule(processed[mapView[i].site_id].ratio)
    /\ \A i \in 1..Len(pageView) :
          (pageView[i].status = "HIGH FLOW")
              <=> HighFlowRule(first_row_of(processed, pageView[i].site_no).ratio)

=============================================================================
